---- MODULE Spec2Model ----
(***************************************************************************)
(* A model of the matcher of package pokervision (vision.go).              *)
(*                                                                         *)
(* Go strings are modelled as sequences of one-character strings, so that  *)
(* prefix tests, slicing, hex decoding and character replacement are       *)
(* computed as the code computes them.  A colour is the 16-bit result of   *)
(* color.Color.RGBA(); an image is its bounds rectangle together with the  *)
(* colour at every point of the rectangle.                                 *)
(***************************************************************************)
EXTENDS Integers, Sequences, FiniteSets, TLC

VARIABLES
    Srcs, Refs,                 \* matcher.Srcs, matcher.Refs
    srcName, img, ocrText,      \* arguments of the last Match call, and the OCR engine's answer
    ref, calls, matched,        \* its result, the comparisons it ran, and whether a call was made
    cRef, cColor, cOut, cDone,  \* handleColor: reference, pixel colour, result
    oArgs, oRaw, oOut, oDone,   \* handleOCR: args, the OCR engine's raw text, result
    img1, img2, equal, equalM,  \* compareImages / compareImagesMonochrome: arguments, results
    cmpDone, cmpDoneM,          \* which of the two has been called
    vis, panicked,              \* the image the last VisualizeSource returned; whether it panicked
    lastOp,                     \* the method of the matcher called last
    fresh                       \* the matcher as constructed, and what Match returned on it

matchVars == <<Srcs, Refs, srcName, img, ocrText, ref, calls, matched>>
colorVars == <<cRef, cColor, cOut, cDone>>
ocrVars   == <<oArgs, oRaw, oOut, oDone>>
cmpVars   == <<img1, img2, equal, equalM, cmpDone, cmpDoneM>>
visVars   == <<vis, panicked, lastOp, fresh>>
vars      == <<matchVars, colorVars, ocrVars, cmpVars, visVars>>

----------------------------------------------------------------------------
(* Bounds of the model.                                                    *)

MaxRefs == 2        \* longest References collection
MaxW    == 2        \* widest image compared
MaxH    == 2        \* tallest image compared
MaxPix  == 2        \* most pixels of an image compared
MaxText == 2        \* longest raw OCR text

----------------------------------------------------------------------------
(* Strings.                                                                *)

EmptyStr == <<>>

\* strings.HasPrefix
HasPrefix(s, p) == Len(s) >= Len(p) /\ SubSeq(s, 1, Len(p)) = p

\* s[n:] of Go (n counted from 0)
SliceFrom(s, n) == SubSeq(s, n + 1, Len(s))

sColor  == <<"c", "o", "l", "o", "r", ":">>
sOcr    == <<"o", "c", "r", ":">>
sImage  == <<"i", "m", "a", "g", "e">>
sImageC == <<"i", "m", "a", "g", "e", ":">>
sImageM == <<"i", "m", "a", "g", "e", "M", ":">>

----------------------------------------------------------------------------
(* Colours and images.                                                     *)

RGBA(r, g, b, a) == [r |-> r, g |-> g, b |-> b, a |-> a]

White       == RGBA(65535, 65535, 65535, 65535)
Black       == RGBA(0, 0, 0, 65535)
Red         == RGBA(65535, 0, 0, 65535)
Transparent == RGBA(0, 0, 0, 0)    \* also what At gives outside the bounds

Palette == {White, Black, Red, Transparent}

\* image.Rectangle: Min inclusive, Max exclusive
Rectangle(x0, y0, x1, y1) == [MinX |-> x0, MinY |-> y0, MaxX |-> x1, MaxY |-> y1]
ZR == Rectangle(0, 0, 0, 0)

Dx(r) == r.MaxX - r.MinX
Dy(r) == r.MaxY - r.MinY
Empty(r) == r.MinX >= r.MaxX \/ r.MinY >= r.MaxY

Points(r) == (r.MinX .. (r.MaxX - 1)) \X (r.MinY .. (r.MaxY - 1))

\* image.Rect: a well-formed rectangle from two corner points
Rect(x0, y0, x1, y1) ==
    Rectangle(IF x0 > x1 THEN x1 ELSE x0, IF y0 > y1 THEN y1 ELSE y0,
              IF x0 > x1 THEN x0 ELSE x1, IF y0 > y1 THEN y0 ELSE y1)

\* Rectangle.Intersect
Intersect(r, s) ==
    LET t == Rectangle(IF r.MinX < s.MinX THEN s.MinX ELSE r.MinX,
                       IF r.MinY < s.MinY THEN s.MinY ELSE r.MinY,
                       IF r.MaxX > s.MaxX THEN s.MaxX ELSE r.MaxX,
                       IF r.MaxY > s.MaxY THEN s.MaxY ELSE r.MaxY)
    IN  IF Empty(t) THEN ZR ELSE t

\* An image: bounds, and the colour of each point within them.
Image(r, pix) == [Rect |-> r, Pix |-> pix]

\* Image.At: the zero colour outside the bounds
At(m, x, y) == IF <<x, y>> \in DOMAIN m.Pix THEN m.Pix[<<x, y>>] ELSE Transparent

\* SubImage: the part of m visible through r, sharing m's coordinates
SubImage(m, r) ==
    LET t == Intersect(r, m.Rect)
    IN  Image(t, [p \in Points(t) |-> m.Pix[p]])

\* Every image with the given bounds and colours
ImagesOn(r, colours) == {Image(r, pix) : pix \in [Points(r) -> colours]}

----------------------------------------------------------------------------
(* compareImages and compareImagesMonochrome.                              *)

\* a plausible slip: both images read at the first image's offsets
compareImagesSameOffset(a, b) ==
    IF Dx(a.Rect) # Dx(b.Rect) \/ Dy(a.Rect) # Dy(b.Rect)
    THEN FALSE
    ELSE LET sx1 == a.Rect.MinX
             sy1 == a.Rect.MinY
         IN  \A x \in 0 .. (Dx(a.Rect) - 1) : \A y \in 0 .. (Dy(a.Rect) - 1) :
                 LET c1 == At(a, x + sx1, y + sy1)
                     c2 == At(b, x + sx1, y + sy1)
                 IN  ~(c1.r # c2.r \/ c1.g # c2.g \/ c1.b # c2.b)

compareImages(a, b) ==
    IF Dx(a.Rect) # Dx(b.Rect) \/ Dy(a.Rect) # Dy(b.Rect)
    THEN FALSE
    ELSE LET sx1 == a.Rect.MinX
             sx2 == b.Rect.MinX
             sy1 == a.Rect.MinY
             sy2 == b.Rect.MinY
         IN  \A x \in 0 .. (Dx(a.Rect) - 1) : \A y \in 0 .. (Dy(a.Rect) - 1) :
                 LET c1 == At(a, x + sx1, y + sy1)
                     c2 == At(b, x + sx2, y + sy2)
                 IN  ~(c1.r # c2.r \/ c1.g # c2.g \/ c1.b # c2.b)

\* a plausible slip: white decided by the red channel alone
compareImagesMonochromeRedOnly(a, b) ==
    IF Dx(a.Rect) # Dx(b.Rect) \/ Dy(a.Rect) # Dy(b.Rect)
    THEN FALSE
    ELSE LET sx1 == a.Rect.MinX
             sx2 == b.Rect.MinX
             sy1 == a.Rect.MinY
             sy2 == b.Rect.MinY
         IN  \A x \in 0 .. (Dx(a.Rect) - 1) : \A y \in 0 .. (Dy(a.Rect) - 1) :
                 LET c1 == At(a, x + sx1, y + sy1)
                     c2 == At(b, x + sx2, y + sy2)
                     img1White == (c1.r = 65535)
                     img2White == (c2.r = 65535)
                 IN  ~(img1White # img2White)

compareImagesMonochrome(a, b) ==
    IF Dx(a.Rect) # Dx(b.Rect) \/ Dy(a.Rect) # Dy(b.Rect)
    THEN FALSE
    ELSE LET sx1 == a.Rect.MinX
             sx2 == b.Rect.MinX
             sy1 == a.Rect.MinY
             sy2 == b.Rect.MinY
         IN  \A x \in 0 .. (Dx(a.Rect) - 1) : \A y \in 0 .. (Dy(a.Rect) - 1) :
                 LET c1 == At(a, x + sx1, y + sy1)
                     c2 == At(b, x + sx2, y + sy2)
                     img1White == (c1.r = 65535 /\ c1.g = 65535 /\ c1.b = 65535)
                     img2White == (c2.r = 65535 /\ c2.g = 65535 /\ c2.b = 65535)
                 IN  ~(img1White # img2White)

----------------------------------------------------------------------------
(* handleColor.                                                            *)

preLen == 6     \* len("color:")

Digits  == <<"0", "1", "2", "3", "4", "5", "6", "7", "8", "9">>
LowerAF == <<"a", "b", "c", "d", "e", "f">>
UpperAF == <<"A", "B", "C", "D", "E", "F">>

\* encoding/hex fromHexChar: the digit's value, or -1 for a character that is none
fromHexChar(c) ==
    IF \E i \in 1 .. 10 : Digits[i] = c
    THEN (CHOOSE i \in 1 .. 10 : Digits[i] = c) - 1
    ELSE IF \E i \in 1 .. 6 : LowerAF[i] = c
    THEN (CHOOSE i \in 1 .. 6 : LowerAF[i] = c) + 9
    ELSE IF \E i \in 1 .. 6 : UpperAF[i] = c
    THEN (CHOOSE i \in 1 .. 6 : UpperAF[i] = c) + 9
    ELSE -1

\* hex.DecodeString: one byte per pair of hex digits; an error for a character
\* that is no hex digit or for an odd length
hexDecodeString(s) ==
    LET n  == Len(s) \div 2
        ok == /\ Len(s) % 2 = 0
              /\ \A i \in 1 .. Len(s) : fromHexChar(s[i]) >= 0
    IN  [err   |-> ~ok,
         bytes |-> IF ok
                   THEN [i \in 1 .. n |->
                            fromHexChar(s[2 * i - 1]) * 16 + fromHexChar(s[2 * i])]
                   ELSE <<>>]

\* a plausible slip: the channel's low byte compared instead of its high byte
handleColorLowByte(r, srcColor) ==
    IF Len(r.Ref) # preLen + 7
    THEN EmptyStr
    ELSE LET b == hexDecodeString(SliceFrom(r.Ref, preLen + 1))
         IN  IF b.err
             THEN EmptyStr
             ELSE IF /\ (srcColor.r % 256) = b.bytes[1]
                     /\ (srcColor.g % 256) = b.bytes[2]
                     /\ (srcColor.b % 256) = b.bytes[3]
                  THEN r.Name
                  ELSE EmptyStr

handleColor(r, srcColor) ==
    IF Len(r.Ref) # preLen + 7
    THEN EmptyStr
    ELSE LET b == hexDecodeString(SliceFrom(r.Ref, preLen + 1))
         IN  IF b.err
             THEN EmptyStr
             ELSE IF /\ (srcColor.r \div 256) = b.bytes[1]
                     /\ (srcColor.g \div 256) = b.bytes[2]
                     /\ (srcColor.b \div 256) = b.bytes[3]
                  THEN r.Name
                  ELSE EmptyStr

----------------------------------------------------------------------------
(* handleOCR.                                                              *)

\* strings.Split(args, ",")[0]: the text before the first comma
FirstField(args) ==
    IF \E i \in 1 .. Len(args) : args[i] = ","
    THEN SubSeq(args, 1, (CHOOSE i \in 1 .. Len(args) :
                              /\ args[i] = ","
                              /\ \A j \in 1 .. (i - 1) : args[j] # ",") - 1)
    ELSE args

\* strconv.Atoi succeeds: an optional sign and then one or more decimal digits
AtoiOK(s) ==
    LET d == IF Len(s) > 0 /\ s[1] \in {"+", "-"} THEN SliceFrom(s, 1) ELSE s
    IN  /\ Len(d) > 0
        /\ \A i \in 1 .. Len(d) : \E k \in 1 .. 10 : Digits[k] = d[i]

\* regexp "[ \n]" replaced by "" everywhere
RECURSIVE StripBlanks(_)
StripBlanks(s) ==
    IF s = <<>>
    THEN <<>>
    ELSE IF Head(s) \in {" ", "\n"}
         THEN StripBlanks(Tail(s))
         ELSE <<Head(s)>> \o StripBlanks(Tail(s))

\* handleOCR; text is what the OCR engine reads from the (resized) image
handleOCR(text, args) ==
    LET arg == FirstField(args)
    IN  IF Len(arg) # 0 /\ ~AtoiOK(arg)
        THEN EmptyStr
        ELSE StripBlanks(text)

----------------------------------------------------------------------------
(* loadImage and handleImage.                                              *)

\* The reference bitmap stored as file "a": one white pixel.
FileA == Image(Rectangle(0, 0, 1, 1), [p \in Points(Rectangle(0, 0, 1, 1)) |-> White])

\* defaultFileLoader.Load over a file system that holds the bitmap "a" and the
\* file "g", which is no PNG; for every other name the reader is nil.
Load(fileName) ==
    IF fileName = <<"a">> THEN [nil |-> FALSE, png |-> TRUE]
    ELSE IF fileName = <<"g">> THEN [nil |-> FALSE, png |-> FALSE]
    ELSE [nil |-> TRUE, png |-> FALSE]

\* loadImage: an error for a nil reader and for bytes png.Decode rejects
loadImage(fileName) ==
    LET reader == Load(fileName)
    IN  IF reader.nil
        THEN [err |-> TRUE, img |-> Image(ZR, <<>>)]
        ELSE IF ~reader.png
        THEN [err |-> TRUE, img |-> Image(ZR, <<>>)]
        ELSE [err |-> FALSE, img |-> FileA]

\* handleImage: the name it returns and the calls it made
handleImage(r, srcImg) ==
    LET file   == IF HasPrefix(r.Ref, sImageC) THEN SliceFrom(r.Ref, Len(sImageC))
                  ELSE IF HasPrefix(r.Ref, sImageM) THEN SliceFrom(r.Ref, Len(sImageM))
                  ELSE EmptyStr
        loaded == loadImage(file)
    IN  IF loaded.err
        THEN [out |-> EmptyStr, ops |-> <<"loadImage">>]
        ELSE IF HasPrefix(r.Ref, sImageM)
             THEN [out |-> IF compareImagesMonochrome(loaded.img, srcImg)
                           THEN r.Name ELSE EmptyStr,
                   ops |-> <<"loadImage", "compareImagesMonochrome">>]
             ELSE [out |-> IF compareImages(loaded.img, srcImg)
                           THEN r.Name ELSE EmptyStr,
                   ops |-> <<"loadImage", "compareImages">>]

----------------------------------------------------------------------------
(* Match.                                                                  *)

Nil == [nil |-> TRUE]

\* a plausible slip: the first source returned when none has the name
findSourceOrFirst(name) ==
    IF \E i \in 1 .. Len(Srcs) : Srcs[i].Name = name
    THEN Srcs[CHOOSE i \in 1 .. Len(Srcs) :
                  /\ Srcs[i].Name = name
                  /\ \A j \in 1 .. (i - 1) : Srcs[j].Name # name]
    ELSE Srcs[1]

\* findSource: the first source of that name, or nil
findSource(name) ==
    IF \E i \in 1 .. Len(Srcs) : Srcs[i].Name = name
    THEN Srcs[CHOOSE i \in 1 .. Len(Srcs) :
                  /\ Srcs[i].Name = name
                  /\ \A j \in 1 .. (i - 1) : Srcs[j].Name # name]
    ELSE Nil

\* a plausible slip: every reference considered, whatever the source's Refs
consideredAlways(r, s) == TRUE

\* a plausible slip: a source that names no reference is compared with all
consideredOrUnlisted(r, s) ==
    Len(s.Refs) = 0 \/ \E k \in 1 .. Len(s.Refs) : r.Name = s.Refs[k]

\* The inner loop of Match: the source refers to this reference.
considered(r, s) == \E k \in 1 .. Len(s.Refs) : r.Name = s.Refs[k]

Call(i, op) == [idx |-> i, op |-> op]
Stamp(i, ops) == [k \in 1 .. Len(ops) |-> Call(i, ops[k])]

\* a plausible slip: the kind of the source not checked before comparing
matchRefNoKindCheck(r, i, isPixel, srcColor, srcImg, text) ==
    IF HasPrefix(r.Ref, sColor)
    THEN LET match == handleColor(r, srcColor)
         IN  [done |-> Len(match) # 0, ref |-> match,
              calls |-> <<Call(i, "handleColor")>>]
    ELSE IF HasPrefix(r.Ref, sOcr)
    THEN LET args  == IF Len(r.Ref) > 4 THEN SliceFrom(r.Ref, 4) ELSE EmptyStr
             match == handleOCR(text, args)
         IN  [done |-> Len(match) # 0, ref |-> match,
              calls |-> <<Call(i, "handleOCR")>>]
    ELSE IF HasPrefix(r.Ref, sImage)
    THEN LET h == handleImage(r, srcImg)
         IN  [done |-> Len(h.out) # 0, ref |-> h.out, calls |-> Stamp(i, h.ops)]
    ELSE [done |-> TRUE, ref |-> EmptyStr, calls |-> <<>>]

\* a plausible slip: a reference bitmap that fails to load ends the call
matchRefLoadAborts(r, i, isPixel, srcColor, srcImg, text) ==
    IF HasPrefix(r.Ref, sColor)
    THEN IF ~isPixel
         THEN [done |-> TRUE, ref |-> EmptyStr, calls |-> <<>>]
         ELSE LET match == handleColor(r, srcColor)
              IN  [done |-> Len(match) # 0, ref |-> match,
                   calls |-> <<Call(i, "handleColor")>>]
    ELSE IF HasPrefix(r.Ref, sOcr)
    THEN IF isPixel
         THEN [done |-> TRUE, ref |-> EmptyStr, calls |-> <<>>]
         ELSE LET args  == IF Len(r.Ref) > 4 THEN SliceFrom(r.Ref, 4) ELSE EmptyStr
                  match == handleOCR(text, args)
              IN  [done |-> Len(match) # 0, ref |-> match,
                   calls |-> <<Call(i, "handleOCR")>>]
    ELSE IF HasPrefix(r.Ref, sImage)
    THEN IF isPixel
         THEN [done |-> TRUE, ref |-> EmptyStr, calls |-> <<>>]
         ELSE LET h == handleImage(r, srcImg)
              IN  [done |-> Len(h.out) # 0 \/ Len(h.ops) = 1, ref |-> h.out,
                   calls |-> Stamp(i, h.ops)]
    ELSE [done |-> TRUE, ref |-> EmptyStr, calls |-> <<>>]

\* a plausible slip: the result of a comparison returned whether or not it is empty
matchRefMissReturns(r, i, isPixel, srcColor, srcImg, text) ==
    IF HasPrefix(r.Ref, sColor)
    THEN IF ~isPixel
         THEN [done |-> TRUE, ref |-> EmptyStr, calls |-> <<>>]
         ELSE [done |-> TRUE, ref |-> handleColor(r, srcColor),
               calls |-> <<Call(i, "handleColor")>>]
    ELSE IF HasPrefix(r.Ref, sOcr)
    THEN IF isPixel
         THEN [done |-> TRUE, ref |-> EmptyStr, calls |-> <<>>]
         ELSE LET args == IF Len(r.Ref) > 4 THEN SliceFrom(r.Ref, 4) ELSE EmptyStr
              IN  [done |-> TRUE, ref |-> handleOCR(text, args),
                   calls |-> <<Call(i, "handleOCR")>>]
    ELSE IF HasPrefix(r.Ref, sImage)
    THEN IF isPixel
         THEN [done |-> TRUE, ref |-> EmptyStr, calls |-> <<>>]
         ELSE LET h == handleImage(r, srcImg)
              IN  [done |-> TRUE, ref |-> h.out, calls |-> Stamp(i, h.ops)]
    ELSE [done |-> TRUE, ref |-> EmptyStr, calls |-> <<>>]

\* The body of Match's loop for a considered reference r, the i-th of Refs:
\* done says that Match returns ref now, calls are the comparisons it ran.
matchRef(r, i, isPixel, srcColor, srcImg, text) ==
    IF HasPrefix(r.Ref, sColor)
    THEN IF ~isPixel
         THEN [done |-> TRUE, ref |-> EmptyStr, calls |-> <<>>]
         ELSE LET match == handleColor(r, srcColor)
              IN  [done |-> Len(match) # 0, ref |-> match,
                   calls |-> <<Call(i, "handleColor")>>]
    ELSE IF HasPrefix(r.Ref, sOcr)
    THEN IF isPixel
         THEN [done |-> TRUE, ref |-> EmptyStr, calls |-> <<>>]
         ELSE LET args  == IF Len(r.Ref) > 4 THEN SliceFrom(r.Ref, 4) ELSE EmptyStr
                  match == handleOCR(text, args)
              IN  [done |-> Len(match) # 0, ref |-> match,
                   calls |-> <<Call(i, "handleOCR")>>]
    ELSE IF HasPrefix(r.Ref, sImage)
    THEN IF isPixel
         THEN [done |-> TRUE, ref |-> EmptyStr, calls |-> <<>>]
         ELSE LET h == handleImage(r, srcImg)
              IN  [done |-> Len(h.out) # 0, ref |-> h.out, calls |-> Stamp(i, h.ops)]
    ELSE [done |-> TRUE, ref |-> EmptyStr, calls |-> <<>>]

\* The loop of Match over refs from its i-th element on.
RECURSIVE scanRefs(_, _, _, _, _, _, _)
scanRefs(refs, i, s, isPixel, srcColor, srcImg, text) ==
    IF i > Len(refs)
    THEN [ref |-> EmptyStr, calls |-> <<>>]
    ELSE IF ~considered(refs[i], s)
    THEN scanRefs(refs, i + 1, s, isPixel, srcColor, srcImg, text)
    ELSE LET step == matchRef(refs[i], i, isPixel, srcColor, srcImg, text)
         IN  IF step.done
             THEN [ref |-> step.ref, calls |-> step.calls]
             ELSE LET rest == scanRefs(refs, i + 1, s, isPixel, srcColor, srcImg, text)
                  IN  [ref |-> rest.ref, calls |-> step.calls \o rest.calls]

\* The position in refs of the reference the source's list names first
\* (0 for a reference the list does not name).
Rank(r, s) ==
    IF considered(r, s)
    THEN CHOOSE k \in 1 .. Len(s.Refs) :
             /\ s.Refs[k] = r.Name
             /\ \A j \in 1 .. (k - 1) : s.Refs[j] # r.Name
    ELSE 0

\* a plausible slip: the references tried in the order of the source's list
RECURSIVE scanBySourceOrder(_, _, _, _, _, _, _)
scanBySourceOrder(refs, k, s, isPixel, srcColor, srcImg, text) ==
    IF k > Len(s.Refs)
    THEN [ref |-> EmptyStr, calls |-> <<>>]
    ELSE LET named == {i \in 1 .. Len(refs) : Rank(refs[i], s) = k}
         IN  IF named = {}
             THEN scanBySourceOrder(refs, k + 1, s, isPixel, srcColor, srcImg, text)
             ELSE LET i    == CHOOSE j \in named : \A l \in named : j <= l
                      step == matchRef(refs[i], i, isPixel, srcColor, srcImg, text)
                  IN  IF step.done
                      THEN [ref |-> step.ref, calls |-> step.calls]
                      ELSE LET rest == scanBySourceOrder(refs, k + 1, s, isPixel,
                                                         srcColor, srcImg, text)
                           IN  [ref |-> rest.ref, calls |-> step.calls \o rest.calls]

compareEachBySourceOrder(refs, s, isPixel, srcColor, srcImg, text) ==
    scanBySourceOrder(refs, 1, s, isPixel, srcColor, srcImg, text)

\* "Compare against each reference": the whole loop of Match
compareEach(refs, s, isPixel, srcColor, srcImg, text) ==
    scanRefs(refs, 1, s, isPixel, srcColor, srcImg, text)

\* Match: the name returned and the comparisons run
MatchOf(name, image, text) ==
    LET s == findSource(name)
    IN  IF s = Nil
        THEN [ref |-> EmptyStr, calls |-> <<>>]
        ELSE IF Len(s.Src) = 2
        THEN compareEach(Refs, s, TRUE, At(image, s.Src[1], s.Src[2]),
                         Image(ZR, <<>>), text)
        ELSE IF Len(s.Src) = 4
        THEN compareEach(Refs, s, FALSE, Transparent,
                         SubImage(image, Rect(s.Src[1], s.Src[2],
                                              s.Src[1] + s.Src[3],
                                              s.Src[2] + s.Src[4])),
                         text)
        ELSE [ref |-> EmptyStr, calls |-> <<>>]

----------------------------------------------------------------------------
(* The configurations and inputs explored.                                 *)

Letters == <<"a", "b", "c", "d", "e", "f", "g", "h", "i", "j">>

\* The name of the i-th reference
RefName(i) == <<Letters[i]>>

\* The reference strings a configuration may hold
RefSpecs ==
    { sColor \o <<"#", "f", "f", "f", "f", "f", "f">>,    \* color:#ffffff
      sColor \o <<"#", "f", "f", "f">>,                   \* color:#fff, too short
      sOcr,                                               \* ocr:
      sImageC \o <<"a">>,                                 \* image:a
      sImageC \o <<"x">>,                                 \* image:x, no such file
      sImageM \o <<"a">>,                                 \* imageM:a
      sImageM \o <<"g">>,                                 \* imageM:g, no PNG
      sImage \o <<"X", ":", "a">>,                        \* imageX:a
      <<"b", "o", "g", "u", "s">> }                       \* bogus

\* References collections: up to MaxRefs references, the i-th named RefName(i)
RefLists ==
    UNION { { [i \in 1 .. n |-> [Name |-> RefName(i), Ref |-> f[i]]] :
                f \in [1 .. n -> RefSpecs] } : n \in 0 .. MaxRefs }

\* Refs lists of a source: the names of some of the references, in the order of
\* References or in the opposite order
RefsChoices ==
    UNION { { [k \in 1 .. Cardinality(S) |->
                  RefName(CHOOSE i \in S : Cardinality({j \in S : j < i}) = k - 1)],
              [k \in 1 .. Cardinality(S) |->
                  RefName(CHOOSE i \in S : Cardinality({j \in S : j > i}) = k - 1)] } :
            S \in SUBSET (1 .. MaxRefs) }

Source(name, src, refs) == [Name |-> name, Src |-> src, Refs |-> refs]

\* The sources of a configuration: a pixel, two regions and an ill-formed one
SourcesWith(refs) ==
    << Source(<<"p">>, <<0, 0>>, refs),
       Source(<<"g">>, <<0, 0, 1, 1>>, refs),
       Source(<<"w">>, <<0, 0, 2, 1>>, refs),
       Source(<<"z">>, <<0, 0, 1>>, refs) >>

SrcNames == {<<"p">>, <<"g">>, <<"w">>, <<"z">>, <<"n">>}

\* A screen of two pixels side by side, the left one of colour c, the right one black
Screen(c) ==
    Image(Rectangle(0, 0, 2, 1),
          [p \in Points(Rectangle(0, 0, 2, 1)) |-> IF p[1] = 0 THEN c ELSE Black])

\* The screens captured, each with the text the OCR engine reads from its regions
Captures ==
    { [image |-> Screen(White), text |-> <<"x", " ">>],
      [image |-> Screen(White), text |-> <<" ">>],
      [image |-> Screen(Black), text |-> <<"x", " ">>] }

NoImage == Image(ZR, <<>>)

IdleMatch ==
    /\ srcName = EmptyStr /\ img = NoImage /\ ocrText = EmptyStr
    /\ ref = EmptyStr /\ calls = <<>> /\ matched = FALSE
IdleColor ==
    /\ cRef = [Name |-> EmptyStr, Ref |-> EmptyStr] /\ cColor = Transparent
    /\ cOut = EmptyStr /\ cDone = FALSE
IdleOCR ==
    /\ oArgs = EmptyStr /\ oRaw = EmptyStr /\ oOut = EmptyStr /\ oDone = FALSE
IdleCmp ==
    /\ img1 = NoImage /\ img2 = NoImage /\ equal = FALSE /\ equalM = FALSE
    /\ cmpDone = FALSE /\ cmpDoneM = FALSE

\* No record of the matcher as constructed
NoRecord == [Srcs |-> <<>>, Refs |-> <<>>, ref |-> <<>>]

IdleVis ==
    /\ vis = NoImage /\ panicked = FALSE /\ lastOp = "none" /\ fresh = NoRecord

----------------------------------------------------------------------------
(* The matcher: constructed by NewMatcher, then Match called any number of *)
(* times.                                                                  *)

Init ==
    /\ Refs \in RefLists
    /\ \E refs \in RefsChoices : Srcs = SourcesWith(refs)
    /\ IdleMatch /\ IdleColor /\ IdleOCR /\ IdleCmp /\ IdleVis

Match(name, image, text) ==
    LET m == MatchOf(name, image, text)
    IN  /\ srcName' = name
        /\ img' = image
        /\ ocrText' = text
        /\ ref' = m.ref
        /\ calls' = m.calls
        /\ matched' = TRUE
        /\ lastOp' = "Match"
        /\ UNCHANGED <<Srcs, Refs, vis, panicked, fresh, colorVars, ocrVars, cmpVars>>

Next == \E name \in SrcNames, c \in Captures : Match(name, c.image, c.text)

Spec == Init /\ [][Next]_vars

----------------------------------------------------------------------------
(* What the last Match call was given, read off the configuration.         *)

\* The source named in the call is in Srcs and has 2 or 4 numbers.
Resolved ==
    \E k \in 1 .. Len(Srcs) : Srcs[k].Name = srcName /\ Len(Srcs[k].Src) \in {2, 4}

Known == \E k \in 1 .. Len(Srcs) : Srcs[k].Name = srcName

TheSource == Srcs[CHOOSE k \in 1 .. Len(Srcs) :
                      /\ Srcs[k].Name = srcName
                      /\ \A j \in 1 .. (k - 1) : Srcs[j].Name # srcName]

IsPixelSource == Len(TheSource.Src) = 2

ThePixel == At(img, TheSource.Src[1], TheSource.Src[2])

TheRegion ==
    SubImage(img, Rect(TheSource.Src[1], TheSource.Src[2],
                       TheSource.Src[1] + TheSource.Src[3],
                       TheSource.Src[2] + TheSource.Src[4]))

RefIdx == 1 .. Len(Refs)

\* The i-th reference is named in the source's Refs.
Applicable(i) == Refs[i].Name \in {TheSource.Refs[k] : k \in 1 .. Len(TheSource.Refs)}

IsColorRef(i)  == HasPrefix(Refs[i].Ref, sColor)
IsOcrRef(i)    == HasPrefix(Refs[i].Ref, sOcr)
IsImageRef(i)  == HasPrefix(Refs[i].Ref, sImageC)
IsImageMRef(i) == HasPrefix(Refs[i].Ref, sImageM)
Recognised(i)  == IsColorRef(i) \/ IsOcrRef(i) \/ IsImageRef(i) \/ IsImageMRef(i)

\* The i-th reference is of a kind that cannot be compared with the source.
KindMismatch(i) ==
    \/ IsColorRef(i) /\ ~IsPixelSource
    \/ (IsOcrRef(i) \/ IsImageRef(i) \/ IsImageMRef(i)) /\ IsPixelSource

OcrArgs(i) == IF Len(Refs[i].Ref) > 4 THEN SliceFrom(Refs[i].Ref, 4) ELSE EmptyStr

\* The bitmap the i-th reference names cannot be loaded or decoded.
LoadFails(i) ==
    /\ IsImageRef(i) \/ IsImageMRef(i)
    /\ loadImage(SliceFrom(Refs[i].Ref,
                           IF IsImageRef(i) THEN Len(sImageC) ELSE Len(sImageM))).err

\* What comparing the source with the i-th reference gives ("" for no match).
Result(i) ==
    IF IsColorRef(i) /\ IsPixelSource THEN handleColor(Refs[i], ThePixel)
    ELSE IF IsOcrRef(i) /\ ~IsPixelSource THEN handleOCR(ocrText, OcrArgs(i))
    ELSE IF (IsImageRef(i) \/ IsImageMRef(i)) /\ ~IsPixelSource
    THEN handleImage(Refs[i], TheRegion).out
    ELSE EmptyStr

Succeeds(i) == Result(i) # EmptyStr

\* The code ends the call at the i-th reference without a match: a kind
\* mismatch, or a string that begins with none of "color:", "ocr:", "image".
Aborts(i) ==
    \/ KindMismatch(i)
    \/ HasPrefix(Refs[i].Ref, sImage) /\ IsPixelSource
    \/ ~(IsColorRef(i) \/ IsOcrRef(i) \/ HasPrefix(Refs[i].Ref, sImage))

\* The scan gets as far as the i-th reference.
Reached(i) ==
    \A j \in 1 .. (i - 1) : Applicable(j) => ~Succeeds(j) /\ ~Aborts(j)

CallsOf(i) == {k \in 1 .. Len(calls) : calls[k].idx = i}
NoCallFrom(i) == \A k \in 1 .. Len(calls) : calls[k].idx < i
NoCallAfter(i) == \A k \in 1 .. Len(calls) : calls[k].idx <= i

----------------------------------------------------------------------------
(* C1: Match scans References in its declared order and returns the result *)
(* of the first applicable reference whose comparison succeeds; once a     *)
(* reference matches no later reference is evaluated; if no applicable     *)
(* reference matches the result is the empty string.                       *)

C1_FirstMatchWins ==
    matched /\ Resolved =>
        /\ \A k \in 1 .. Len(calls) : Applicable(calls[k].idx)
        /\ \A j, k \in 1 .. Len(calls) : j <= k => calls[j].idx <= calls[k].idx
        /\ \A i \in RefIdx :
               Applicable(i) /\ Succeeds(i) /\ Reached(i) =>
                   ref = Result(i) /\ CallsOf(i) # {} /\ NoCallAfter(i)
        /\ ref # EmptyStr =>
               \E i \in RefIdx : /\ Applicable(i) /\ Succeeds(i) /\ ref = Result(i)
                                 /\ \A j \in 1 .. (i - 1) : Applicable(j) => ~Succeeds(j)
        /\ (\A i \in RefIdx : Applicable(i) => ~Succeeds(i)) => ref = EmptyStr

\* A later applicable reference would match as well, and is not evaluated.
C1_Witness ==
    /\ matched /\ Resolved /\ ref # EmptyStr
    /\ \E i, j \in RefIdx :
           /\ i < j /\ Applicable(i) /\ Applicable(j)
           /\ Succeeds(i) /\ Succeeds(j) /\ ref = Result(i) /\ CallsOf(j) = {}

(* C2: when the scan reaches an applicable reference whose kind does not   *)
(* fit the source (a color reference for a region; an image, imageM or ocr *)
(* reference for a pixel), Match returns "" at once: the comparison is not *)
(* attempted and no later reference is considered; no image or OCR         *)
(* comparison ever runs for a pixel source, no colour comparison for a     *)
(* region source.                                                          *)

C2_KindMismatchAborts ==
    matched /\ Resolved =>
        /\ \A i \in RefIdx :
               Applicable(i) /\ Reached(i) /\ KindMismatch(i) =>
                   ref = EmptyStr /\ NoCallFrom(i)
        /\ \A k \in 1 .. Len(calls) :
               (calls[k].op = "handleColor") <=> IsPixelSource

\* A mismatched reference is reached and a later applicable one would match.
C2_Witness ==
    /\ matched /\ Resolved /\ ref = EmptyStr
    /\ \E i, j \in RefIdx :
           /\ i < j /\ Applicable(i) /\ Applicable(j)
           /\ Reached(i) /\ KindMismatch(i) /\ Succeeds(j)

(* C3: Match returns "" without evaluating any reference when the source   *)
(* name is not in Sources or the source's geometry has a length other than *)
(* 2 or 4.                                                                 *)

C3_UnresolvedSource ==
    matched /\ ~Resolved => ref = EmptyStr /\ calls = <<>>

\* An ill-formed source whose Refs name an OCR reference that reads text.
C3_Witness ==
    /\ matched /\ Known /\ ~Resolved /\ ref = EmptyStr
    /\ \E i \in RefIdx : Applicable(i) /\ IsOcrRef(i) /\ StripBlanks(ocrText) # EmptyStr

(* C8: when the scan reaches an applicable reference whose tag is none of  *)
(* "color:", "ocr:", "image:", "imageM:", Match returns "" for the whole   *)
(* call: nothing is run for that reference and no later reference is       *)
(* considered; this covers a tag that merely begins with "image".          *)

C8_UnrecognisedTagAborts ==
    matched /\ Resolved =>
        \A i \in RefIdx :
            Applicable(i) /\ Reached(i) /\ ~Recognised(i) =>
                /\ ref = EmptyStr
                /\ \A c \in CallsOf(i) : calls[c].op = "loadImage"
                /\ NoCallAfter(i)

(* C9: when the bitmap of an applicable image or imageM reference cannot   *)
(* be loaded or decoded, Match returns "" immediately for the whole call:  *)
(* no later reference is evaluated.                                        *)

C9_LoadFailureAborts ==
    matched /\ Resolved =>
        \A i \in RefIdx :
            Applicable(i) /\ Reached(i) /\ ~IsPixelSource /\ LoadFails(i) =>
                ref = EmptyStr /\ NoCallAfter(i)

\* The applicable reference that follows the i-th in References, if any
NextApplicable(i, k) ==
    /\ i < k /\ Applicable(k)
    /\ \A j \in (i + 1) .. (k - 1) : ~Applicable(j)

(* C9, amended: when the bitmap of an applicable image or imageM reference *)
(* that the scan reaches cannot be loaded or decoded, nothing is compared  *)
(* for that reference and the scan goes on with the next applicable        *)
(* reference: Match returns that one's result if it matches, and evaluates *)
(* it unless it aborts the call.                                           *)

C9_LoadFailureContinues ==
    matched /\ Resolved =>
        \A i \in RefIdx :
            Applicable(i) /\ Reached(i) /\ ~IsPixelSource /\ LoadFails(i) =>
                /\ \A c \in CallsOf(i) : calls[c].op = "loadImage"
                /\ CallsOf(i) # {}
                /\ \A k \in RefIdx :
                       NextApplicable(i, k) =>
                           /\ Succeeds(k) => ref = Result(k)
                           /\ ~Aborts(k) => CallsOf(k) # {}
                /\ (\A k \in RefIdx : i < k => ~Applicable(k)) => ref = EmptyStr

\* A bitmap fails to load and the next applicable reference is returned.
C9_Witness ==
    /\ matched /\ Resolved /\ ref # EmptyStr
    /\ \E i, k \in RefIdx :
           /\ Applicable(i) /\ Reached(i) /\ ~IsPixelSource /\ LoadFails(i)
           /\ NextApplicable(i, k) /\ Succeeds(k) /\ ref = Result(k)

(* C10: when two or more of a source's applicable references would match,  *)
(* the order of the names in the source's Refs list defines the priority:  *)
(* Match returns the matching reference that comes earliest in that list.  *)

Matching == {i \in RefIdx : Applicable(i) /\ Succeeds(i)}

C10_SourceListPriority ==
    matched /\ Resolved /\ Cardinality(Matching) >= 2 =>
        \E i \in Matching :
            /\ \A j \in Matching : Rank(Refs[i], TheSource) <= Rank(Refs[j], TheSource)
            /\ ref = Result(i)

(* C10, amended: when two or more of a source's applicable references      *)
(* would match, the order of References defines the priority: Match        *)
(* returns the matching reference that comes earliest in References,       *)
(* provided the scan reaches it; the order of the source's Refs list       *)
(* plays no part.                                                          *)

C10_ReferencesPriority ==
    matched /\ Resolved /\ Cardinality(Matching) >= 2 =>
        \A i \in Matching :
            (\A j \in Matching : i <= j) /\ Reached(i) => ref = Result(i)

\* Two references match and the source's list names the later one first.
C10_Witness ==
    /\ matched /\ Resolved
    /\ \E i, j \in Matching :
           /\ i < j /\ Reached(i)
           /\ Rank(Refs[j], TheSource) < Rank(Refs[i], TheSource)
           /\ Result(i) # Result(j)
           /\ ref = Result(i)

----------------------------------------------------------------------------
(* handleColor on its own: a reference and a pixel colour are drawn, then  *)
(* the function is applied.                                                *)

HexPairs == { <<"0", "0">>, <<"f", "f">>, <<"F", "F">>, <<"0", "f">>, <<"f", "g">> }

\* The text after "color:": three pairs, with or without a leading character,
\* with or without a trailing one
ColorTails ==
    { lead \o p1 \o p2 \o p3 \o trail :
        lead \in {<<>>, <<"#">>, <<"f">>}, p1 \in HexPairs, p2 \in HexPairs,
        p3 \in HexPairs, trail \in {<<>>, <<"0">>} }

ChannelValues == {0, 255, 3855, 65535}

PixelColours ==
    { RGBA(r, g, b, a) : r \in ChannelValues, g \in ChannelValues,
                         b \in ChannelValues, a \in {65535} }

InitColor ==
    /\ \E t \in ColorTails : cRef = [Name |-> <<"a">>, Ref |-> sColor \o t]
    /\ cColor \in PixelColours
    /\ cOut = EmptyStr /\ cDone = FALSE
    /\ Srcs = <<>> /\ Refs = <<>>
    /\ IdleMatch /\ IdleOCR /\ IdleCmp /\ IdleVis

CallHandleColor ==
    /\ ~cDone
    /\ cOut' = handleColor(cRef, cColor)
    /\ cDone' = TRUE
    /\ UNCHANGED <<cRef, cColor, matchVars, ocrVars, cmpVars, visVars>>

SpecColor == InitColor /\ [][CallHandleColor]_vars

HexDigits ==
    {Digits[i] : i \in 1 .. 10} \cup {LowerAF[i] : i \in 1 .. 6}
        \cup {UpperAF[i] : i \in 1 .. 6}

\* The value of a hex digit, counted from the three alphabets
DigitValue(c) ==
    IF c \in {Digits[i] : i \in 1 .. 10}
    THEN CHOOSE v \in 0 .. 9 : Digits[v + 1] = c
    ELSE CHOOSE v \in 10 .. 15 : LowerAF[v - 9] = c \/ UpperAF[v - 9] = c

\* "color:" followed by exactly 7 characters whose last six are hex digits
WellFormedColor(s) ==
    /\ Len(s) = 13
    /\ SubSeq(s, 1, 6) = sColor
    /\ \A i \in 8 .. 13 : s[i] \in HexDigits

\* The byte the k-th pair of hex digits of a well-formed colour stands for
ColorByte(s, k) == 16 * DigitValue(s[6 + 2 * k]) + DigitValue(s[7 + 2 * k])

(* C4: handleColor returns the reference's name exactly when the reference *)
(* string is "color:" followed by exactly 7 characters whose last six are  *)
(* hex digits and each of the pixel's red, green and blue 16-bit values    *)
(* divided by 256 equals the corresponding decoded byte; for every other   *)
(* input it returns the empty string.                                      *)

C4_HandleColor ==
    cDone =>
        /\ cOut \in {cRef.Name, EmptyStr}
        /\ cOut = cRef.Name <=>
               /\ WellFormedColor(cRef.Ref)
               /\ cColor.r \div 256 = ColorByte(cRef.Ref, 1)
               /\ cColor.g \div 256 = ColorByte(cRef.Ref, 2)
               /\ cColor.b \div 256 = ColorByte(cRef.Ref, 3)

\* A well-formed colour in mixed case matches a pixel whose channels have
\* low bytes that differ from the high ones.
C4_Witness ==
    /\ cDone /\ cOut = cRef.Name
    /\ cRef.Ref = sColor \o <<"#", "0", "0", "F", "F", "0", "f">>
    /\ cColor = RGBA(255, 65535, 3855, 65535)

----------------------------------------------------------------------------
(* handleOCR on its own: the arguments and the OCR engine's raw text are   *)
(* drawn, then the function is applied.                                    *)

OcrChars == {" ", "\n", "1", "l", "9"}

RawTexts == UNION { [1 .. n -> OcrChars] : n \in 0 .. MaxText }

OcrArgStrings ==
    { <<>>, <<"2", "0">>, <<"2", "0", ",", "y">>, <<"2", "0", ",", "Y">>,
      <<"2", "0", ",", "n">>, <<",", "y">>, <<"a", "s", "d">> }

InitOCR ==
    /\ oArgs \in OcrArgStrings
    /\ oRaw \in RawTexts
    /\ oOut = EmptyStr /\ oDone = FALSE
    /\ Srcs = <<>> /\ Refs = <<>>
    /\ IdleMatch /\ IdleColor /\ IdleCmp /\ IdleVis

CallHandleOCR ==
    /\ ~oDone
    /\ oOut' = handleOCR(oRaw, oArgs)
    /\ oDone' = TRUE
    /\ UNCHANGED <<oArgs, oRaw, matchVars, colorVars, cmpVars, visVars>>

SpecOCR == InitOCR /\ [][CallHandleOCR]_vars

\* The second comma-separated argument ("" when there is none)
ModeArg(args) ==
    IF FirstField(args) = args
    THEN EmptyStr
    ELSE FirstField(SliceFrom(args, Len(FirstField(args)) + 1))

AlphabeticMode(args) == ModeArg(args) \in {<<"y">>, <<"Y">>}

LookAlike == <<"l", "r", "e", "a", "s", "g", "t", "b", "g">>

\* Every digit 1-9 replaced by its look-alike letter
Alphabetic(s) ==
    [i \in 1 .. Len(s) |->
        IF \E d \in 1 .. 9 : Digits[d + 1] = s[i]
        THEN LookAlike[CHOOSE d \in 1 .. 9 : Digits[d + 1] = s[i]]
        ELSE s[i]]

(* C5: the text handleOCR returns is the OCR engine's raw text with every  *)
(* space and newline removed and, when the second argument selects         *)
(* alphabetic mode, every digit 1-9 replaced by its look-alike letter, so   *)
(* that in alphabetic mode the result contains no digit 1-9.               *)

C5_AlphabeticSubstitution ==
    oDone /\ AlphabeticMode(oArgs) =>
        /\ oOut = Alphabetic(StripBlanks(oRaw))
        /\ \A i \in 1 .. Len(oOut) : \A d \in 1 .. 9 : oOut[i] # Digits[d + 1]

----------------------------------------------------------------------------
(* compareImages and compareImagesMonochrome on their own: two images are  *)
(* drawn, then each function is applied.                                   *)

\* Widths and heights of the images compared
Shapes == {d \in (1 .. MaxW) \X (1 .. MaxH) : d[1] * d[2] <= MaxPix}

\* Images whose bounds start at (x, y); the empty image is one of them
ImagesAt(x, y) ==
    UNION { ImagesOn(Rectangle(x, y, x + d[1], y + d[2]), Palette) : d \in Shapes }
        \cup {NoImage}

InitCmp ==
    /\ img1 \in ImagesAt(0, 0)                      \* a decoded bitmap starts at (0, 0)
    /\ img2 \in ImagesAt(0, 0) \cup ImagesAt(1, 2)  \* a region of the screen need not
    /\ equal = FALSE /\ equalM = FALSE /\ cmpDone = FALSE /\ cmpDoneM = FALSE
    /\ Srcs = <<>> /\ Refs = <<>>
    /\ IdleMatch /\ IdleColor /\ IdleOCR /\ IdleVis

CallCompareImages ==
    /\ ~cmpDone
    /\ equal' = compareImages(img1, img2)
    /\ cmpDone' = TRUE
    /\ UNCHANGED <<img1, img2, equalM, cmpDoneM, matchVars, colorVars, ocrVars, visVars>>

CallCompareImagesMonochrome ==
    /\ ~cmpDoneM
    /\ equalM' = compareImagesMonochrome(img1, img2)
    /\ cmpDoneM' = TRUE
    /\ UNCHANGED <<img1, img2, equal, cmpDone, matchVars, colorVars, ocrVars, visVars>>

NextCmp == CallCompareImages \/ CallCompareImagesMonochrome

SpecCmp == InitCmp /\ [][NextCmp]_vars

SameSize(a, b) == Dx(a.Rect) = Dx(b.Rect) /\ Dy(a.Rect) = Dy(b.Rect)

\* The point of b that corresponds to the point p of a
Corresponding(a, b, p) ==
    <<p[1] - a.Rect.MinX + b.Rect.MinX, p[2] - a.Rect.MinY + b.Rect.MinY>>

SameRGB(c, d) == c.r = d.r /\ c.g = d.g /\ c.b = d.b

(* C6: compareImages is reflexive, false for images whose width or height  *)
(* differ, and for images of equal dimensions true exactly when red, green *)
(* and blue agree at every corresponding position, offsets taken from each *)
(* image's own bounds origin and alpha ignored.                            *)

C6_CompareImages ==
    cmpDone =>
        /\ img1 = img2 => equal
        /\ ~SameSize(img1, img2) => ~equal
        /\ SameSize(img1, img2) =>
               (equal <=> \A p \in DOMAIN img1.Pix :
                              SameRGB(img1.Pix[p], img2.Pix[Corresponding(img1, img2, p)]))

\* Equal images at different origins that differ in alpha only.
C6_Witness ==
    /\ cmpDone /\ equal
    /\ img1.Rect # img2.Rect /\ Dx(img1.Rect) = 2
    /\ \E p \in DOMAIN img1.Pix : img1.Pix[p] # img2.Pix[Corresponding(img1, img2, p)]

IsWhite(c) == c.r = 65535 /\ c.g = 65535 /\ c.b = 65535

\* The image m with the point p given the colour c
Recolour(m, p, c) == Image(m.Rect, [m.Pix EXCEPT ![p] = c])

(* C7: compareImagesMonochrome depends only on the dimensions and on each  *)
(* pixel being white or not: for images of equal dimensions it is          *)
(* symmetric in its arguments, and its result is unchanged by recolouring  *)
(* any pixel of either image to another colour of the same class.          *)

C7_Monochrome ==
    cmpDoneM =>
        /\ SameSize(img1, img2) => equalM = compareImagesMonochrome(img2, img1)
        /\ \A p \in DOMAIN img1.Pix : \A c \in Palette :
               (IsWhite(c) <=> IsWhite(img1.Pix[p])) =>
                   compareImagesMonochrome(Recolour(img1, p, c), img2) = equalM
        /\ \A p \in DOMAIN img2.Pix : \A c \in Palette :
               (IsWhite(c) <=> IsWhite(img2.Pix[p])) =>
                   compareImagesMonochrome(img1, Recolour(img2, p, c)) = equalM

\* Images of different colours and of the same classes compare equal.
C7_Witness ==
    /\ cmpDoneM /\ equalM /\ img1.Rect # img2.Rect
    /\ \E p \in DOMAIN img1.Pix : IsWhite(img1.Pix[p])
    /\ \E p \in DOMAIN img1.Pix :
           ~SameRGB(img1.Pix[p], img2.Pix[Corresponding(img1, img2, p)])

----------------------------------------------------------------------------
(* VisualizeSource, and a matcher on which Match and VisualizeSource are   *)
(* called in any order.                                                    *)

\* The marker colour, color.RGBA{255, 0, 0, 255}
MarkerColour == Red

\* The points VisualizeSource sets for a source: the pixel itself, or points
\* every 5 pixels along the four edges of the rectangle
MarkPoints(s) ==
    IF Len(s.Src) = 2
    THEN {<<s.Src[1], s.Src[2]>>}
    ELSE IF Len(s.Src) = 4
    THEN LET xs == {x \in 0 .. (s.Src[3] - 1) : x % 5 = 0}
             ys == {y \in 0 .. (s.Src[4] - 1) : y % 5 = 0}
         IN  {<<s.Src[1] + x, s.Src[2]>> : x \in xs}
                 \cup {<<s.Src[1] + x, s.Src[2] + s.Src[4]>> : x \in xs}
                 \cup {<<s.Src[1], s.Src[2] + y>> : y \in ys}
                 \cup {<<s.Src[1] + s.Src[3], s.Src[2] + y>> : y \in ys}
    ELSE {}

\* RGBA.Set at each of the points: nothing is written outside the bounds
SetAll(m, points, c) ==
    Image(m.Rect, [p \in DOMAIN m.Pix |-> IF p \in points THEN c ELSE m.Pix[p]])

\* a plausible slip: the rectangle's width and height turned into its far
\* corner in place, through the slice the copy of the source shares with Srcs
markSourceInPlace(st, name) ==
    LET s == findSource(name)
    IN  IF s = Nil
        THEN [panic |-> TRUE, img |-> st.img, srcs |-> st.srcs]
        ELSE IF Len(s.Src) = 4
        THEN LET k == CHOOSE j \in 1 .. Len(st.srcs) :
                          /\ st.srcs[j].Name = name
                          /\ \A l \in 1 .. (j - 1) : st.srcs[l].Name # name
                 far == <<s.Src[1], s.Src[2], s.Src[1] + s.Src[3], s.Src[2] + s.Src[4]>>
             IN  [panic |-> FALSE,
                  img   |-> SetAll(st.img, MarkPoints(s), MarkerColour),
                  srcs  |-> [st.srcs EXCEPT ![k].Src = far]]
        ELSE [panic |-> FALSE,
              img   |-> SetAll(st.img, MarkPoints(s), MarkerColour),
              srcs  |-> st.srcs]

\* One round of VisualizeSource's loop: the source is looked up and marked on
\* the copy of the image; an unknown name is a nil dereference.  srcs is the
\* matcher's Srcs, which the round only reads.
markSource(st, name) ==
    LET s == findSource(name)
    IN  IF s = Nil
        THEN [panic |-> TRUE, img |-> st.img, srcs |-> st.srcs]
        ELSE [panic |-> FALSE,
              img   |-> SetAll(st.img, MarkPoints(s), MarkerColour),
              srcs  |-> st.srcs]

\* VisualizeSource's loop over the names from the k-th on
RECURSIVE markSources(_, _, _)
markSources(st, names, k) ==
    IF k > Len(names)
    THEN st
    ELSE LET next == markSource(st, names[k])
         IN  IF next.panic THEN next ELSE markSources(next, names, k + 1)

\* VisualizeSource: the marks are drawn on a copy of the image
VisualizeSourceOf(image, names) ==
    markSources([panic |-> FALSE, img |-> image, srcs |-> Srcs], names, 1)

\* References: one of each kind of string, under the names a to i
Catalogue ==
    << [Name |-> RefName(1), Ref |-> sColor \o <<"#", "f", "f", "f">>],
       [Name |-> RefName(2), Ref |-> sColor \o <<"#", "f", "f", "f", "f", "f", "f">>],
       [Name |-> RefName(3), Ref |-> sImageC \o <<"x">>],
       [Name |-> RefName(4), Ref |-> sImageM \o <<"g">>],
       [Name |-> RefName(5), Ref |-> sImageC \o <<"a">>],
       [Name |-> RefName(6), Ref |-> sImageM \o <<"a">>],
       [Name |-> RefName(7), Ref |-> sOcr],
       [Name |-> RefName(8), Ref |-> sImage \o <<"X", ":", "a">>],
       [Name |-> RefName(9), Ref |-> <<"b", "o", "g", "u", "s">>] >>

\* Refs lists of the sources: colours, bitmaps and OCR, OCR and an unknown tag, none
CatalogueChoices ==
    { <<RefName(2), RefName(1)>>,
      <<RefName(3), RefName(4), RefName(5), RefName(6), RefName(7)>>,
      <<RefName(7), RefName(8)>>,
      <<>> }

\* The sources, and a region that does not start at the image's origin
SourcesAlso(refs) == SourcesWith(refs) \o <<Source(<<"h">>, <<1, 0, 1, 1>>, refs)>>

CallNames == SrcNames \cup {<<"h">>}

\* The lists of source names VisualizeSource is given
NameLists ==
    { <<>>, <<<<"p">>>>, <<<<"g">>>>, <<<<"h">>>>, <<<<"w">>>>, <<<<"z">>>>,
      <<<<"p">>, <<"h">>>>, <<<<"n">>>>, <<<<"g">>, <<"n">>>> }

InitCalls ==
    /\ Refs = Catalogue
    /\ \E refs \in CatalogueChoices : Srcs = SourcesAlso(refs)
    /\ IdleMatch /\ IdleColor /\ IdleOCR /\ IdleCmp
    /\ vis = NoImage /\ panicked = FALSE /\ lastOp = "none"
    /\ fresh = [Srcs |-> Srcs, Refs |-> Refs,
                ref  |-> [in \in CallNames \X Captures |->
                             MatchOf(in[1], in[2].image, in[2].text).ref]]

VisualizeSource(image, names) ==
    LET v == VisualizeSourceOf(image, names)
    IN  /\ vis' = IF v.panic THEN vis ELSE v.img
        /\ panicked' = v.panic
        /\ lastOp' = "VisualizeSource"
        /\ Srcs' = v.srcs
        /\ UNCHANGED <<Refs, srcName, img, ocrText, ref, calls, matched, fresh,
                       colorVars, ocrVars, cmpVars>>

NextCalls ==
    \/ \E name \in CallNames, c \in Captures : Match(name, c.image, c.text)
    \/ \E c \in Captures, names \in NameLists : VisualizeSource(c.image, names)

SpecCalls == InitCalls /\ [][NextCalls]_vars

(* C11: a Matcher is immutable after construction and stateless across     *)
(* calls: no sequence of Match and VisualizeSource calls changes its       *)
(* Sources or References, and a Match call returns what the same call      *)
(* returns on the matcher as constructed, whichever calls preceded it.     *)

C11_Immutable ==
    /\ Srcs = fresh.Srcs
    /\ Refs = fresh.Refs
    /\ matched => ref = fresh.ref[<<srcName, [image |-> img, text |-> ocrText]>>]

\* A Match that finds a reference, made after a VisualizeSource that marked
\* the image it was given; an earlier VisualizeSource may have panicked.
C11_Witness ==
    /\ lastOp = "Match" /\ matched /\ ref # EmptyStr
    /\ vis # NoImage
    /\ \E p \in DOMAIN vis.Pix : vis.Pix[p] = MarkerColour /\ img.Pix[p] # MarkerColour
    /\ srcName = <<"h">>

----------------------------------------------------------------------------
(* Claims about the references Match passes over, checked on Spec.         *)

\* refs without its i-th element
Without(refs, i) == SubSeq(refs, 1, i - 1) \o SubSeq(refs, i + 1, Len(refs))

\* What the last Match call returns on the given References
ResultOn(refs) ==
    IF IsPixelSource
    THEN compareEach(refs, TheSource, TRUE, ThePixel, NoImage, ocrText).ref
    ELSE compareEach(refs, TheSource, FALSE, Transparent, TheRegion, ocrText).ref

(* C12: a reference whose name is not in the resolved source's Refs list   *)
(* is never compared and never influences Match: whatever its string and   *)
(* wherever it stands in References, Match returns the same result as with *)
(* that reference removed.                                                 *)

C12_UnlistedIgnored ==
    matched /\ Resolved =>
        \A i \in RefIdx :
            ~Applicable(i) => CallsOf(i) = {} /\ ref = ResultOn(Without(Refs, i))

\* An unlisted reference that would end the call, or match, stands before
\* the listed reference that Match returns.
C12_Witness ==
    /\ matched /\ Resolved /\ ref # EmptyStr
    /\ \E i, k \in RefIdx :
           /\ i < k /\ ~Applicable(i) /\ Applicable(k) /\ ref = Result(k)
           /\ KindMismatch(i) \/ ~Recognised(i) \/ LoadFails(i) \/ Succeeds(i)

\* The i-th reference is of the right kind, is compared and does not match:
\* the colour differs, the bitmap is loaded and differs in size or in a
\* pixel, or the OCR text is empty.
PlainMiss(i) ==
    /\ Recognised(i) /\ ~KindMismatch(i) /\ ~LoadFails(i)
    /\ ~Succeeds(i)

(* C13: a comparison that merely fails to match never ends the scan: when  *)
(* an applicable reference of the right kind does not match, Match goes on *)
(* to the remaining references and returns a later applicable reference's  *)
(* result if that one matches.                                             *)

C13_MissContinues ==
    matched /\ Resolved =>
        \A i \in RefIdx :
            Applicable(i) /\ Reached(i) /\ PlainMiss(i) =>
                /\ CallsOf(i) # {}
                /\ \A k \in RefIdx :
                       /\ NextApplicable(i, k) /\ ~Aborts(k) => CallsOf(k) # {}
                       /\ i < k /\ Applicable(k) /\ Reached(k) /\ Succeeds(k) =>
                              ref = Result(k)

\* A bitmap of another size than the region is passed over and the OCR
\* reference after it is returned.
C13_Witness ==
    /\ matched /\ Resolved /\ ref # EmptyStr
    /\ \E i, k \in RefIdx :
           /\ i < k /\ Applicable(i) /\ Reached(i) /\ PlainMiss(i)
           /\ IsImageRef(i) /\ ~SameSize(FileA, TheRegion)
           /\ Applicable(k) /\ Succeeds(k) /\ ref = Result(k)

====
